---- MODULE Spec2Model ----
(***************************************************************************)
(* GitHub repository pulse scraper (src/github_pulse_scraper.py,           *)
(* src/utils.py): the paginated fetchers, the contributor tally, the       *)
(* report / export flow of main() and its 404 recovery prompt.             *)
(***************************************************************************)
EXTENDS Integers, Sequences, FiniteSets, TLC

(***************************************************************************)
(* Bounds of the model.                                                    *)
(***************************************************************************)
\* Pages the modelled server serves per listing before it stops sending "next".
MaxPages == 2
\* Longest commit list handed to analyze_contributors in SpecTally.
MaxCommits == 4
\* The longest list of issues or of pull requests generate_report processes
\* on its own.
MaxRecords == 2

(***************************************************************************)
(* JSON values.  null is the string "null"; an object is modelled by the   *)
(* fields the code reads.                                                  *)
(***************************************************************************)
null == "null"

\* The author of a commit record: null, or an object with a set of keys.
AuthorNull    == [isnull |-> TRUE,  keys |-> {},        login |-> null]
AuthorEmpty   == [isnull |-> FALSE, keys |-> {},        login |-> null]
AuthorNoLogin == [isnull |-> FALSE, keys |-> {"id"},    login |-> null]
AuthorUser(l) == [isnull |-> FALSE, keys |-> {"id", "login"}, login |-> l]

Logins  == {"u1", "u2"}
Authors == {AuthorNull, AuthorEmpty, AuthorNoLogin} \cup {AuthorUser(l) : l \in Logins}

Commit(sha, author) == [sha |-> sha, author |-> author]

(***************************************************************************)
(* analyze_contributors                                                    *)
(***************************************************************************)
\* Python truthiness of commit.get("author"): None and {} are falsy.
Truthy(author) == ~author.isnull /\ author.keys # {}

\* commit["author"].get("login", "Unknown")
GetLogin(author) == IF "login" \in author.keys THEN author.login ELSE "Unknown"

\* contributors[author] += 1 on a defaultdict(int): a new key is appended in
\* insertion order, an existing key keeps its place.
RECURSIVE Incr(_, _)
Incr(tally, login) ==
    IF tally = <<>> THEN << [login |-> login, count |-> 1] >>
    ELSE IF Head(tally).login = login
         THEN << [login |-> login, count |-> Head(tally).count + 1] >> \o Tail(tally)
         ELSE << Head(tally) >> \o Incr(Tail(tally), login)

\* The for loop of analyze_contributors over commits[1..n].
RECURSIVE CountAuthors(_, _)
CountAuthors(cs, n) ==
    IF n = 0 THEN <<>>
    ELSE LET t == CountAuthors(cs, n - 1) IN
         IF Truthy(cs[n].author) THEN Incr(t, GetLogin(cs[n].author)) ELSE t

\* sorted(items, key=count, reverse=True): stable, so an entry goes behind
\* every entry whose count is at least its own.
RECURSIVE InsertDescMutBeforeEqual(_, _)
InsertDescMutBeforeEqual(sorted, e) ==
    IF sorted = <<>> THEN << e >>
    ELSE IF Head(sorted).count > e.count
         THEN << Head(sorted) >> \o InsertDescMutBeforeEqual(Tail(sorted), e)
         ELSE << e >> \o sorted
RECURSIVE InsertDesc(_, _)
InsertDesc(sorted, e) ==
    IF sorted = <<>> THEN << e >>
    ELSE IF Head(sorted).count >= e.count
         THEN << Head(sorted) >> \o InsertDesc(Tail(sorted), e)
         ELSE << e >> \o sorted

RECURSIVE SortDescFrom(_, _)
SortDescFrom(items, n) ==
    IF n = 0 THEN <<>> ELSE InsertDesc(SortDescFrom(items, n - 1), items[n])

SortDescMutUnsorted(items) == items
SortDesc(items) == SortDescFrom(items, Len(items))

\* The tally as the ordered items of the returned dict.
analyze_contributors(cs) == SortDesc(CountAuthors(cs, Len(cs)))

RECURSIVE SumCounts(_)
SumCounts(tally) == IF tally = <<>> THEN 0 ELSE Head(tally).count + SumCounts(Tail(tally))

Keys(tally) == {tally[i].login : i \in 1..Len(tally)}

(***************************************************************************)
(* Timestamps are ISO strings; since_date is the start of the window.      *)
(***************************************************************************)
T_before == "2024-01-09T00:00:00Z"
T_start  == "2024-01-10T00:00:00Z"
T_after  == "2024-01-11T00:00:00Z"

\* datetime.fromisoformat(ts.replace("Z", "+00:00")), as days of January 2024.
fromisoformat(ts) ==
    CASE ts = T_before -> 9
      [] ts = T_start  -> 10
      [] ts = T_after  -> 11

\* since_date = now - period_days, here 2024-01-10T00:00:00+00:00.
since_date == 10

Issue(number, is_pr, created_at, state, closed_at) ==
    [number |-> number, pull_request |-> is_pr, created_at |-> created_at,
     state |-> state, closed_at |-> closed_at]

PullRequest(number, updated_at, created_at, state, closed_at, merged_at) ==
    [number |-> number, updated_at |-> updated_at, created_at |-> created_at,
     state |-> state, closed_at |-> closed_at, merged_at |-> merged_at]

(***************************************************************************)
(* The remote API.  A request names an endpoint and a page; the server     *)
(* answers with a status, a JSON body and the presence of a "next" link.   *)
(* Status 0 stands for a request that got no HTTP response at all          *)
(* (requests raises ConnectionError, which is not an HTTPError).           *)
(***************************************************************************)
Statuses == {200, 403, 404, 500}
Outcomes == Statuses \cup {0}

Paginated == {"commits", "issues", "prs"}

PageKinds(endpoint) ==
    CASE endpoint = "commits" -> {"empty", "full"}
      [] endpoint = "issues"  -> {"empty", "onlyprs", "mixed"}
      [] endpoint = "prs"     -> {"empty", "stale", "mixed"}
      [] endpoint \in {"org", "user"} -> {"empty", "full"}

\* Repository names of the owner as the two listing endpoints page them.
OrgRepoPages  == << <<"q", "2">> >>
UserRepoPages == << <<"q">> >>

RepoPage(table, k) ==
    IF k \in 1..Len(table) THEN [i \in 1..Len(table[k]) |-> [name |-> table[k][i]]] ELSE <<>>

\* The body of page k of an endpoint; record ids follow the page number.
Body(endpoint, k, kind) ==
    IF kind = "empty" THEN <<>>
    ELSE CASE endpoint = "commits" ->
                << Commit(2 * k - 1, AuthorUser(IF k % 2 = 1 THEN "u1" ELSE "u2")),
                   Commit(2 * k, AuthorNull) >>
           [] endpoint = "issues" /\ kind = "onlyprs" ->
                << Issue(3 * k - 2, TRUE, T_after, "open", null) >>
           [] endpoint = "issues" /\ kind = "mixed" ->
                << Issue(3 * k - 2, FALSE, T_after, "closed", T_after),
                   Issue(3 * k - 1, TRUE, T_after, "open", null),
                   Issue(3 * k, FALSE, T_before, "open", null) >>
           [] endpoint = "prs" /\ kind = "stale" ->
                << PullRequest(2 * k - 1, T_before, T_before, "closed", T_before, null) >>
           [] endpoint = "prs" /\ kind = "mixed" ->
                << PullRequest(2 * k - 1, T_after, T_start, "closed", T_after, T_after),
                   PullRequest(2 * k, T_before, T_before, "open", null, null) >>
           [] endpoint = "org"  -> RepoPage(OrgRepoPages, k)
           [] endpoint = "user" -> RepoPage(UserRepoPages, k)

\* The server stops offering a "next" link at page MaxPages.
NextLinks(k) == IF k < MaxPages THEN BOOLEAN ELSE {FALSE}

Response(status, body, next) ==
    IF status = 200 THEN [status |-> status, body |-> body, next |-> next]
    ELSE [status |-> status, body |-> <<>>, next |-> FALSE]

\* response.raise_for_status(): HTTPError for 4xx and 5xx.
raise_for_statusMutOnly4xx(status) == status >= 400 /\ status < 500
raise_for_status(status) == status >= 400

\* What the request raises: nothing, an HTTPError, or a ConnectionError.
Raised(status) ==
    IF status = 0 THEN "ConnectionError"
    ELSE IF raise_for_status(status) THEN "HTTPError" ELSE "none"

(***************************************************************************)
(* One iteration of each fetcher's while loop on a successful response:    *)
(* the accumulator after it, and whether the loop goes on to page + 1.     *)
(***************************************************************************)
NotPullRequestMutKeepsAll(i) == TRUE
NotPullRequest(i) == ~i.pull_request
UpdatedSince(pr) == fromisoformat(pr.updated_at) >= since_date

get_commitsMutNoEmptyBreak(all_commits, body, next) ==
    [acc |-> all_commits \o body, more |-> next]
get_commits(all_commits, body, next) ==
    IF body = <<>> THEN [acc |-> all_commits, more |-> FALSE]
    ELSE [acc |-> all_commits \o body, more |-> next]

get_issuesMutFilterFirst(all_issues, body, next) ==
    IF SelectSeq(body, NotPullRequest) = <<>> THEN [acc |-> all_issues, more |-> FALSE]
    ELSE [acc |-> all_issues \o SelectSeq(body, NotPullRequest), more |-> next]
get_issues(all_issues, body, next) ==
    IF body = <<>> THEN [acc |-> all_issues, more |-> FALSE]
    ELSE [acc |-> all_issues \o SelectSeq(body, NotPullRequest), more |-> next]

get_pull_requestsMutNoWindowBreak(all_prs, body, next) ==
    IF body = <<>> THEN [acc |-> all_prs, more |-> FALSE]
    ELSE [acc |-> all_prs \o SelectSeq(body, UpdatedSince), more |-> next]
get_pull_requests(all_prs, body, next) ==
    IF body = <<>> THEN [acc |-> all_prs, more |-> FALSE]
    ELSE LET filtered_prs == SelectSeq(body, UpdatedSince) IN
         IF filtered_prs = <<>> THEN [acc |-> all_prs, more |-> FALSE]
         ELSE [acc |-> all_prs \o filtered_prs, more |-> next]

list_owner_reposLoop(all_repos, body, next) ==
    IF body = <<>> THEN [acc |-> all_repos, more |-> FALSE]
    ELSE [acc |-> all_repos \o body, more |-> next]

Loop(endpoint, acc, body, next) ==
    CASE endpoint = "commits" -> get_commits(acc, body, next)
      [] endpoint = "issues"  -> get_issues(acc, body, next)
      [] endpoint = "prs"     -> get_pull_requests(acc, body, next)
      [] endpoint \in {"org", "user"} -> list_owner_reposLoop(acc, body, next)

(***************************************************************************)
(* generate_report and export_json call the fetchers in one order: the     *)
(* fetcher called after the one that returned.                             *)
(***************************************************************************)
NextFetchMutIssuesFirst(s) ==
    CASE s = "info"    -> "issues"
      [] s = "issues"  -> "commits"
      [] s = "commits" -> "prs"
NextFetch(s) ==
    CASE s = "info"    -> "commits"
      [] s = "commits" -> "issues"
      [] s = "issues"  -> "prs"

(***************************************************************************)
(* generate_report: the sets behind the scorecard's counts.                *)
(***************************************************************************)
CreatedSince(r) == fromisoformat(r.created_at) >= since_date
ClosedSince(r) ==
    r.state = "closed" /\ r.closed_at # null /\ fromisoformat(r.closed_at) >= since_date
Merged(p) == p.merged_at # null
NotMerged(p) == p.merged_at = null

issues_opened(issues)       == SelectSeq(issues, CreatedSince)
issues_closedMutNotOpened(issues) ==
    SelectSeq(issues, LAMBDA r : ClosedSince(r) /\ ~CreatedSince(r))
issues_closed(issues)       == SelectSeq(issues, ClosedSince)
prs_opened(prs)             == SelectSeq(prs, CreatedSince)
closed_prsMutIgnoresWindow(prs) == SelectSeq(prs, LAMBDA p : p.state = "closed")
closed_prs(prs)             == SelectSeq(prs, ClosedSince)
prs_merged(prs)             == SelectSeq(closed_prs(prs), Merged)
prs_closed_unmerged(prs)    == SelectSeq(closed_prs(prs), NotMerged)

\* What print_scorecard_report prints of its arguments: the counts.
print_scorecard_report(cs, contributors, issues, prs) ==
    [total_commits       |-> Len(cs),
     total_issues        |-> Len(issues_opened(issues)) + Len(issues_closed(issues)),
     total_prs           |-> Len(prs_opened(prs)) + Len(prs_merged(prs))
                                + Len(prs_closed_unmerged(prs)),
     active_contributors |-> Len(contributors),
     issues_opened       |-> Len(issues_opened(issues)),
     issues_closed       |-> Len(issues_closed(issues)),
     prs_opened          |-> Len(prs_opened(prs)),
     prs_merged          |-> Len(prs_merged(prs)),
     prs_closed_unmerged |-> Len(prs_closed_unmerged(prs))]

(***************************************************************************)
(* The 404 recovery prompt of main(): strings as Python treats them.       *)
(***************************************************************************)
\* The strings of the model in ascending code-point order (digits, capitals,
\* small letters), the order of sorted() on str.
CodePointOrder == <<"", "0", "02", "1", "2", "3", "4", "Q", "a", "b", "kb", "q", "x">>

Rank(s) == CHOOSE i \in 1..Len(CodePointOrder) : CodePointOrder[i] = s

RECURSIVE InsertAsc(_, _)
InsertAsc(sorted, s) ==
    IF sorted = <<>> THEN << s >>
    ELSE IF Rank(Head(sorted)) <= Rank(s)
         THEN << Head(sorted) >> \o InsertAsc(Tail(sorted), s)
         ELSE << s >> \o sorted

RECURSIVE SortedFrom(_, _)
SortedFrom(names, n) ==
    IF n = 0 THEN <<>> ELSE InsertAsc(SortedFrom(names, n - 1), names[n])

\* sorted([r['name'] for r in repos])
SortedNames(repos) == SortedFrom([i \in 1..Len(repos) |-> repos[i].name], Len(repos))

\* str.lower()
Lower(s) == IF s = "Q" THEN "q" ELSE s

\* int(s): the value, or ValueError.
int(s) ==
    CASE s = "0"  -> [ok |-> TRUE, val |-> 0]
      [] s = "02" -> [ok |-> TRUE, val |-> 2]
      [] s = "1"  -> [ok |-> TRUE, val |-> 1]
      [] s = "2"  -> [ok |-> TRUE, val |-> 2]
      [] s = "3"  -> [ok |-> TRUE, val |-> 3]
      [] s = "4"  -> [ok |-> TRUE, val |-> 4]
      [] OTHER    -> [ok |-> FALSE, val |-> 0]

\* What the user may type at the prompt (after strip()).
ChoiceInputs == {"q", "Q", "0", "02", "1", "2", "3", "4", "b", "x", ""}

InList(s, names) == \E i \in 1..Len(names) : names[i] = s

\* The prompt loop's decision on one input, in the order the code tests it:
\* quit, a listed name, a number in range; anything else prompts again.
ChooseMutIndexFirst(choice_input, repo_names) ==
    IF Lower(choice_input) = "q" THEN [act |-> "quit", repo |-> null, out |-> ""]
    ELSE IF int(choice_input).ok /\ int(choice_input).val - 1 >= 0
            /\ int(choice_input).val - 1 < Len(repo_names)
    THEN [act |-> "retry", repo |-> repo_names[int(choice_input).val], out |-> "retrying"]
    ELSE IF InList(choice_input, repo_names)
    THEN [act |-> "retry", repo |-> choice_input, out |-> "retrying"]
    ELSE [act |-> "again", repo |-> null, out |-> "invalid"]
ChooseMutReversedOrder(choice_input, repo_names) ==
    IF int(choice_input).ok /\ 0 <= int(choice_input).val - 1
          /\ int(choice_input).val - 1 < Len(repo_names)
    THEN [act |-> "retry", repo |-> repo_names[int(choice_input).val], out |-> "retrying"]
    ELSE IF InList(choice_input, repo_names)
    THEN [act |-> "retry", repo |-> choice_input, out |-> "retrying"]
    ELSE IF Lower(choice_input) = "q" THEN [act |-> "quit", repo |-> null, out |-> ""]
    ELSE IF int(choice_input).ok
    THEN [act |-> "again", repo |-> null, out |-> "invalid_number"]
    ELSE [act |-> "again", repo |-> null, out |-> "invalid_input"]
ChooseMutClampsIndex(choice_input, repo_names) ==
    IF Lower(choice_input) = "q" THEN [act |-> "quit", repo |-> null, out |-> ""]
    ELSE IF InList(choice_input, repo_names)
    THEN [act |-> "retry", repo |-> choice_input, out |-> "retrying"]
    ELSE IF int(choice_input).ok
    THEN LET choice_idx == int(choice_input).val - 1 IN
         IF 0 <= choice_idx /\ choice_idx < Len(repo_names)
         THEN [act |-> "retry", repo |-> repo_names[choice_idx + 1], out |-> "retrying"]
         ELSE [act |-> "retry", repo |-> repo_names[Len(repo_names)], out |-> "retrying"]
    ELSE [act |-> "again", repo |-> null, out |-> "invalid_input"]
Choose(choice_input, repo_names) ==
    IF Lower(choice_input) = "q" THEN [act |-> "quit", repo |-> null, out |-> ""]
    ELSE IF InList(choice_input, repo_names)
    THEN [act |-> "retry", repo |-> choice_input, out |-> "retrying"]
    ELSE IF int(choice_input).ok
    THEN LET choice_idx == int(choice_input).val - 1 IN
         IF 0 <= choice_idx /\ choice_idx < Len(repo_names)
         THEN [act |-> "retry", repo |-> repo_names[choice_idx + 1], out |-> "retrying"]
         ELSE [act |-> "again", repo |-> null, out |-> "invalid_number"]
    ELSE [act |-> "again", repo |-> null, out |-> "invalid_input"]

\* main()'s handler for an HTTPError of generate_report, by status code.
MainExceptMut403Recovers(status) ==
    IF status \in {403, 404} THEN "not_found" ELSE "http_error"
MainExcept(status) ==
    IF status = 404 THEN "not_found"
    ELSE IF status = 403 THEN "rate_limit"
    ELSE "http_error"

\* list_owner_repos' handler for an HTTPError: try the next URL only on 404.
ListExceptMutAlwaysContinue(status) == "continue"
ListExcept(status) == IF status = 404 THEN "continue" ELSE "return_empty"

(***************************************************************************)
(* export_to_json: json.dump writes the document as a stream of chunks;    *)
(* json.load reads it back.  A chunk is a key, an item of the value under  *)
(* the last key, or the end of the document.                               *)
(***************************************************************************)
KeyTok(k)  == [t |-> "key",  val |-> <<k>>]
ItemTok(v) == [t |-> "item", val |-> <<v>>]
EndTok     == [t |-> "end",  val |-> <<>>]

Section(k, items) == << KeyTok(k) >> \o [i \in 1..Len(items) |-> ItemTok(items[i])]

\* The keys of the exported document, in the order export_json sets them.
DocKeys == <<"repository", "period_days", "since_date", "generated_at", "repository_info",
             "commits", "issues", "pull_requests", "contributors">>

Header(data) ==
    Section("repository", << data.repository >>)
    \o Section("period_days", << data.period_days >>)
    \o Section("since_date", << data.since_date >>)
    \o Section("generated_at", << data.generated_at >>)
    \o Section("repository_info", << data.repository_info >>)

dumpMutReversed(data) ==
    LET Rev(s) == [i \in 1..Len(s) |-> s[Len(s) + 1 - i]] IN
    Header(data)
    \o Section("commits", Rev(data.commits)) \o Section("issues", Rev(data.issues))
    \o Section("pull_requests", Rev(data.pull_requests))
    \o Section("contributors", data.contributors) \o << EndTok >>
\* json.dump(data, f, indent=2): the chunks written, in order.
dump(data) ==
    Header(data)
    \o Section("commits", data.commits) \o Section("issues", data.issues)
    \o Section("pull_requests", data.pull_requests)
    \o Section("contributors", data.contributors) \o << EndTok >>

EmptyDoc == [k \in {DocKeys[i] : i \in 1..Len(DocKeys)} |-> <<>>]

\* json.load over the first n chunks: the document so far, the key being
\* filled, and whether the end of the document was read.
RECURSIVE loadFrom(_, _)
loadFrom(chunks, n) ==
    IF n = 0 THEN [doc |-> EmptyDoc, key |-> null, ended |-> FALSE, ok |-> TRUE]
    ELSE LET st == loadFrom(chunks, n - 1)
             c  == chunks[n] IN
         IF ~st.ok \/ st.ended THEN [st EXCEPT !.ok = FALSE]
         ELSE IF c.t = "key"
              THEN IF c.val[1] \in DOMAIN st.doc
                   THEN [st EXCEPT !.key = c.val[1]] ELSE [st EXCEPT !.ok = FALSE]
         ELSE IF c.t = "item"
              THEN IF st.key = null THEN [st EXCEPT !.ok = FALSE]
                   ELSE [st EXCEPT !.doc[st.key] = Append(@, c.val[1])]
         ELSE [st EXCEPT !.ended = TRUE]

\* json.load(file): fails (ok = FALSE) on a document that does not end.
load(chunks) ==
    LET st == loadFrom(chunks, Len(chunks)) IN
    [ok |-> st.ok /\ st.ended, doc |-> st.doc]

\* args.days (default) and the owner / repository the run starts with.
period_days == 30
Owner == "Altinity"
Repository(repo) == [owner |-> Owner, repo |-> repo]
NoInfo == [full_name |-> Repository(null)]

\* The dict export_json builds before it calls export_to_json.
Data(repo, info, cs, is, ps, tally) ==
    [repository      |-> Repository(repo),
     period_days     |-> [days |-> period_days],
     since_date      |-> [iso |-> T_start],
     generated_at    |-> [iso |-> T_after],
     repository_info |-> info,
     commits         |-> cs,
     issues          |-> is,
     pull_requests   |-> ps,
     contributors    |-> tally]

\* The content a file at an export path holds before the run: an earlier report.
PreviousContent ==
    dump(Data("previous", [full_name |-> Repository("previous")], <<>>, <<>>, <<>>, <<>>))

Paths == {"pulse_report.json", "out.json"}

\* How far open(output_file, "w") and json.dump(data, f) get: -1 when open
\* fails, else the number of chunks written before the write fails (the
\* model tries half of them), or all of them.
WriteOutcomes(chunks) == {-1, Len(chunks) \div 2, Len(chunks)}

\* open(..., "w") truncates the file; each chunk written stays in it.
export_to_json(content, chunks, written) ==
    IF written = -1 THEN [file |-> content, ret |-> "False", out |-> "write_error"]
    ELSE IF written = Len(chunks) THEN [file |-> chunks, ret |-> "True", out |-> "exported"]
    ELSE [file |-> SubSeq(chunks, 1, written), ret |-> "False", out |-> "write_error"]

\* export_json's "except Exception" catches every exception of its fetches.
export_jsonCatchesMutNothing(raised) == FALSE
export_jsonCatchesMutHTTPOnly(raised) == raised = "HTTPError"
export_jsonCatches(raised) == raised \in {"HTTPError", "ConnectionError"}

VARIABLES
    pc,            \* where main() is: "report", "listing", "prompt", "ask_export",
                   \* "export", "done", "crashed" (and "analyze"/"analyzed" in SpecTally)
    args_repo,     \* args.repo
    args_export,   \* args.export (null when not given)
    stage,         \* the fetcher running: "info", "commits", "issues", "prs"
    page,          \* the fetcher's page counter
    acc,           \* the fetcher's accumulator (all_commits, all_issues, all_prs, all_repos)
    pages,         \* history: the bodies the running fetcher has received so far
    req,           \* the last request sent
    resp,          \* the last response received
    repo_info,     \* generate_report's locals / export_json's data entries
    commits,
    issues,
    prs,
    contributors,
    scorecard,     \* what print_scorecard_report printed (<<>> before it ran)
    url,           \* list_owner_repos: the URL being tried
    repo_names,    \* the sorted names shown at the prompt
    choice_input,  \* the last input read at the prompt
    e_status,      \* e.response.status_code of the HTTPError main() is handling
    out,           \* the last message logged or printed
    output_file,   \* export_json's output_file
    fs,            \* the files at the export paths
    export_ret,    \* what export_json returned: "none", "True", "False", "raised"
    data,          \* the web scraper's document (<<>> before it is built)
    waited,        \* the web scraper's waits for the summary element, by outcome
    ret            \* what scrape_pulse returned: "none", "data", "None"

\* The variables of GitHubPulseWebScraper.scrape_pulse.
web == <<data, waited, ret>>

vars == <<pc, args_repo, args_export, stage, page, acc, pages, req, resp, repo_info,
          commits, issues, prs, contributors, scorecard, url, repo_names, choice_input,
          e_status, out, output_file, fs, export_ret, data, waited, ret>>

\* scrape_pulse has not been called.
NoScrape == data = <<>> /\ waited = <<>> /\ ret = "none"

NoRequest  == [endpoint |-> "none", page |-> 0]
NoResponse == [status |-> 0, body |-> <<>>, next |-> FALSE]

\* Everything but pc, commits and contributors, as main() starts.
InitRest ==
    /\ args_repo = "kb"
    /\ stage = "info"
    /\ page = 1
    /\ acc = <<>>
    /\ pages = <<>>
    /\ req = NoRequest
    /\ resp = NoResponse
    /\ repo_info = NoInfo
    /\ issues = <<>>
    /\ prs = <<>>
    /\ scorecard = <<>>
    /\ url = "none"
    /\ repo_names = <<>>
    /\ choice_input = ""
    /\ e_status = 0
    /\ out = ""
    /\ output_file = null
    /\ fs = [p \in Paths |-> PreviousContent]
    /\ export_ret = "none"
    /\ NoScrape

Init ==
    /\ pc = "report"
    /\ args_export \in {null, "out.json"}
    /\ commits = <<>>
    /\ contributors = <<>>
    /\ InitRest

(***************************************************************************)
(* Fragments of actions.                                                   *)
(***************************************************************************)
\* The locals of generate_report / export_json are gone (or not yet set).
NoLocals ==
    /\ repo_info' = NoInfo
    /\ commits' = <<>>
    /\ issues' = <<>>
    /\ prs' = <<>>
    /\ contributors' = <<>>

KeepLocals == UNCHANGED <<repo_info, commits, issues, prs, contributors>>

\* No fetcher is running.
NoFetch ==
    /\ stage' = "none"
    /\ page' = 0
    /\ acc' = <<>>
    /\ pages' = <<>>

\* A fetcher starts: page = 1, empty accumulator.
StartFetchMutKeepsList(s) ==
    /\ stage' = s
    /\ page' = 1
    /\ acc' = acc
    /\ pages' = <<>>
StartFetch(s) ==
    /\ stage' = s
    /\ page' = 1
    /\ acc' = <<>>
    /\ pages' = <<>>

\* The request for the current page and the server's answer to it.
Exchange(endpoint, status, kind, next) ==
    /\ req' = [endpoint |-> endpoint, page |-> page]
    /\ resp' = Response(status, Body(endpoint, page, kind), next)

\* main() ends: break out of the loop, or an exception leaves it.
Ends(how, message) ==
    /\ pc' = how
    /\ out' = message
    /\ NoFetch
    /\ url' = "none"

\* main()'s except clauses around generate_report (and export_json).
MainCatches(status) ==
    /\ NoLocals
    /\ repo_names' = <<>>
    /\ choice_input' = ""
    /\ UNCHANGED <<args_repo, args_export, scorecard, output_file, fs>>
    /\ IF Raised(status) = "ConnectionError"
       THEN Ends("done", "error") /\ UNCHANGED e_status
       ELSE /\ e_status' = status
            /\ IF MainExcept(status) = "not_found"
               THEN \* logger.error(...); repos = scraper.list_owner_repos()
                    /\ pc' = "listing"
                    /\ out' = "not_found"
                    /\ url' = "org"
                    /\ StartFetch("repos")
               ELSE Ends("done", MainExcept(status))

\* export_json is entered: a new data dict, then get_repo_info.
StartExport(file) ==
    /\ pc' = "export"
    /\ output_file' = file
    /\ NoLocals
    /\ StartFetch("info")

(***************************************************************************)
(* generate_report                                                         *)
(***************************************************************************)
\* repo_info = self.get_repo_info()
ReportInfo ==
    /\ pc = "report" /\ stage = "info"
    /\ \E status \in Outcomes :
         /\ Exchange("info", status, "empty", FALSE)
         /\ IF Raised(status) = "none"
            THEN /\ repo_info' = [full_name |-> Repository(args_repo)]
                 /\ StartFetch(NextFetch("info"))
                 /\ choice_input' = ""
                 /\ repo_names' = <<>>
                 /\ e_status' = 0
                 /\ UNCHANGED <<pc, args_repo, args_export, commits, issues, prs,
                                contributors, scorecard, url, out, output_file, fs,
                                export_ret>>
            ELSE MainCatches(status) /\ UNCHANGED export_ret
    /\ UNCHANGED web

\* One request of get_commits, get_issues or get_pull_requests that leaves
\* the fetcher in its loop.
ReportPageMore ==
    /\ pc = "report" /\ stage \in Paginated
    /\ \E kind \in PageKinds(stage), next \in NextLinks(page) :
         LET r == Loop(stage, acc, Body(stage, page, kind), next) IN
         /\ r.more
         /\ Exchange(stage, 200, kind, next)
         /\ acc' = r.acc
         /\ page' = page + 1
         /\ pages' = Append(pages, Body(stage, page, kind))
         /\ UNCHANGED <<pc, args_repo, args_export, stage, repo_info, commits, issues, prs,
                        contributors, scorecard, url, repo_names, choice_input, e_status,
                        out, output_file, fs, export_ret>>
    /\ UNCHANGED web

\* The last request of get_commits or get_issues: the fetcher returns and
\* the next one starts.
ReportPageLast ==
    /\ pc = "report" /\ stage \in {"commits", "issues"}
    /\ \E kind \in PageKinds(stage), next \in NextLinks(page) :
         LET r == Loop(stage, acc, Body(stage, page, kind), next) IN
         /\ ~r.more
         /\ Exchange(stage, 200, kind, next)
         /\ StartFetch(NextFetch(stage))
         /\ IF stage = "commits"
            THEN commits' = r.acc /\ UNCHANGED issues
            ELSE issues' = r.acc /\ UNCHANGED commits
         /\ UNCHANGED <<pc, args_repo, args_export, repo_info, prs, contributors,
                        scorecard, url, repo_names, choice_input, e_status, out,
                        output_file, fs, export_ret>>
    /\ UNCHANGED web

\* The last request of get_pull_requests: the data is processed, the
\* scorecard printed, and main() goes on to the export.
ReportFinish ==
    /\ pc = "report" /\ stage = "prs"
    /\ \E kind \in PageKinds(stage), next \in NextLinks(page) :
         LET r == Loop(stage, acc, Body(stage, page, kind), next)
             tally == analyze_contributors(commits) IN
         /\ ~r.more
         /\ Exchange(stage, 200, kind, next)
         /\ scorecard' = << print_scorecard_report(commits, tally, issues, r.acc) >>
         /\ out' = "report_complete"
         /\ IF args_export # null
            THEN StartExport(args_export)
            ELSE /\ pc' = "ask_export"
                 /\ prs' = r.acc
                 /\ contributors' = tally
                 /\ NoFetch
                 /\ UNCHANGED <<repo_info, commits, issues, output_file>>
         /\ UNCHANGED <<args_repo, args_export, url, repo_names, choice_input, e_status,
                        fs, export_ret>>
    /\ UNCHANGED web

\* A request of a paginated fetcher fails: the exception reaches main().
ReportPageFails ==
    /\ pc = "report" /\ stage \in Paginated
    /\ \E status \in Outcomes :
         /\ Raised(status) # "none"
         /\ Exchange(stage, status, "empty", FALSE)
         /\ MainCatches(status)
         /\ UNCHANGED export_ret
    /\ UNCHANGED web

\* input("Export data to JSON? (y/n): ") and the file name prompt.
AskExport ==
    /\ pc = "ask_export"
    /\ \E do_export \in {"y", "n"}, name \in {""} :
         IF do_export = "y"
         THEN /\ StartExport(IF name = "" THEN "pulse_report.json" ELSE name)
              /\ UNCHANGED out
         ELSE /\ Ends("done", out)
              /\ KeepLocals
              /\ UNCHANGED output_file
    /\ UNCHANGED <<args_repo, args_export, req, resp, scorecard, repo_names,
                   choice_input, e_status, fs, export_ret, url>>
    /\ UNCHANGED web

(***************************************************************************)
(* export_json                                                             *)
(***************************************************************************)
\* A fetch of export_json raises: its except clause logs and returns False;
\* an exception it did not catch would reach main().
ExportCatches(status) ==
    IF export_jsonCatches(Raised(status))
    THEN /\ export_ret' = "False"
         /\ Ends("done", "export_error")
         /\ NoLocals
         /\ UNCHANGED <<args_repo, args_export, scorecard, repo_names, choice_input,
                        e_status, output_file, fs>>
    ELSE /\ export_ret' = "raised"
         /\ MainCatches(status)

\* data["repository_info"] = self.get_repo_info()
ExportInfo ==
    /\ pc = "export" /\ stage = "info"
    /\ \E status \in Outcomes :
         /\ Exchange("info", status, "empty", FALSE)
         /\ IF Raised(status) = "none"
            THEN /\ repo_info' = [full_name |-> Repository(args_repo)]
                 /\ StartFetch(NextFetch("info"))
                 /\ UNCHANGED <<pc, args_repo, args_export, commits, issues, prs,
                                contributors, scorecard, url, repo_names, choice_input,
                                e_status, out, output_file, fs, export_ret>>
            ELSE ExportCatches(status)
    /\ UNCHANGED web

ExportPageMore ==
    /\ pc = "export" /\ stage \in Paginated
    /\ \E kind \in PageKinds(stage), next \in NextLinks(page) :
         LET r == Loop(stage, acc, Body(stage, page, kind), next) IN
         /\ r.more
         /\ Exchange(stage, 200, kind, next)
         /\ acc' = r.acc
         /\ page' = page + 1
         /\ pages' = Append(pages, Body(stage, page, kind))
         /\ UNCHANGED <<pc, args_repo, args_export, stage, repo_info, commits, issues, prs,
                        contributors, scorecard, url, repo_names, choice_input, e_status,
                        out, output_file, fs, export_ret>>
    /\ UNCHANGED web

ExportPageLast ==
    /\ pc = "export" /\ stage \in {"commits", "issues"}
    /\ \E kind \in PageKinds(stage), next \in NextLinks(page) :
         LET r == Loop(stage, acc, Body(stage, page, kind), next) IN
         /\ ~r.more
         /\ Exchange(stage, 200, kind, next)
         /\ StartFetch(NextFetch(stage))
         /\ IF stage = "commits"
            THEN commits' = r.acc /\ UNCHANGED issues
            ELSE issues' = r.acc /\ UNCHANGED commits
         /\ UNCHANGED <<pc, args_repo, args_export, repo_info, prs, contributors,
                        scorecard, url, repo_names, choice_input, e_status, out,
                        output_file, fs, export_ret>>
    /\ UNCHANGED web

\* The last request of get_pull_requests: the tally is added and
\* export_to_json writes the document; main() ends whatever it returns.
ExportFinish ==
    /\ pc = "export" /\ stage = "prs"
    /\ \E kind \in PageKinds(stage), next \in NextLinks(page) :
         LET r == Loop(stage, acc, Body(stage, page, kind), next)
             tally == analyze_contributors(commits)
             chunks == dump(Data(args_repo, repo_info, commits, issues, r.acc, tally)) IN
         /\ ~r.more
         /\ Exchange(stage, 200, kind, next)
         /\ prs' = r.acc
         /\ contributors' = tally
         /\ \E written \in WriteOutcomes(chunks) :
              LET w == export_to_json(fs[output_file], chunks, written) IN
              /\ fs' = [fs EXCEPT ![output_file] = w.file]
              /\ export_ret' = w.ret
              /\ Ends("done", w.out)
         /\ UNCHANGED <<args_repo, args_export, repo_info, commits, issues, scorecard,
                        repo_names, choice_input, e_status, output_file>>
    /\ UNCHANGED web

ExportPageFails ==
    /\ pc = "export" /\ stage \in Paginated
    /\ \E status \in Outcomes :
         /\ Raised(status) # "none"
         /\ Exchange(stage, status, "empty", FALSE)
         /\ ExportCatches(status)
    /\ UNCHANGED web

(***************************************************************************)
(* main(): the 404 recovery                                                *)
(***************************************************************************)
\* One request of list_owner_repos, and what main() does with the list when
\* list_owner_repos returns.
ListPage ==
    /\ pc = "listing"
    /\ \E status \in Outcomes, kind \in PageKinds(url), next \in NextLinks(page) :
         LET r == Loop(url, acc, Body(url, page, kind), next) IN
         /\ Exchange(url, status, kind, next)
         /\ IF Raised(status) = "ConnectionError"
            THEN \* not an HTTPError: nothing catches it
                 Ends("crashed", "traceback") /\ UNCHANGED repo_names
            ELSE IF Raised(status) = "HTTPError"
            THEN IF ListExcept(status) = "continue"
                 THEN IF url = "org"
                      THEN /\ url' = "user"
                           /\ StartFetch("repos")
                           /\ UNCHANGED <<pc, out, repo_names>>
                      ELSE Ends("done", "no_owner") /\ UNCHANGED repo_names
                 ELSE Ends("done", "list_error") /\ UNCHANGED repo_names
            ELSE IF r.more
            THEN /\ acc' = r.acc
                 /\ page' = page + 1
                 /\ pages' = Append(pages, Body(url, page, kind))
                 /\ UNCHANGED <<pc, stage, url, out, repo_names>>
            ELSE IF r.acc # <<>>
            THEN /\ repo_names' = SortedNames(r.acc)
                 /\ pc' = "prompt"
                 /\ out' = "did_you_mean"
                 /\ NoFetch
                 /\ url' = "none"
            ELSE Ends("done", out) /\ UNCHANGED repo_names
    /\ KeepLocals
    /\ UNCHANGED <<args_repo, args_export, scorecard, choice_input, e_status,
                   output_file, fs, export_ret>>
    /\ UNCHANGED web

\* One input at the prompt.
Prompt ==
    /\ pc = "prompt"
    /\ \E inp \in ChoiceInputs :
         LET c == Choose(inp, repo_names) IN
         /\ choice_input' = inp
         /\ IF c.act = "quit"
            THEN Ends("done", out) /\ UNCHANGED args_repo
            ELSE IF c.act = "retry"
            THEN /\ args_repo' = c.repo
                 /\ out' = c.out
                 /\ pc' = "report"
                 /\ StartFetch("info")
                 /\ UNCHANGED url
            ELSE /\ out' = c.out
                 /\ UNCHANGED <<pc, args_repo, stage, page, acc, pages, url>>
    /\ KeepLocals
    /\ UNCHANGED <<args_export, req, resp, scorecard, repo_names, e_status,
                   output_file, fs, export_ret>>
    /\ UNCHANGED web

Next == ReportInfo \/ ReportPageMore \/ ReportPageLast \/ ReportFinish
        \/ ReportPageFails \/ AskExport
        \/ ExportInfo \/ ExportPageMore \/ ExportPageLast \/ ExportFinish
        \/ ExportPageFails \/ ListPage \/ Prompt

Spec == Init /\ [][Next]_vars

(***************************************************************************)
(* SpecTally: analyze_contributors applied to every bounded commit list.   *)
(***************************************************************************)
CommitLists ==
    UNION {{[i \in 1..n |-> Commit(i, f[i])] : f \in [1..n -> Authors]} : n \in 0..MaxCommits}

InitTally ==
    /\ pc = "analyze"
    /\ args_export = null
    /\ commits \in CommitLists
    /\ contributors = <<>>
    /\ InitRest

Analyze ==
    /\ pc = "analyze"
    /\ contributors' = analyze_contributors(commits)
    /\ pc' = "analyzed"
    /\ UNCHANGED <<args_repo, args_export, stage, page, acc, pages, req, resp, repo_info,
                   commits, issues, prs, scorecard, url, repo_names, choice_input,
                   e_status, out, output_file, fs, export_ret>>
    /\ UNCHANGED web

NextTally == Analyze

SpecTally == InitTally /\ [][NextTally]_vars

(***************************************************************************)
(* SpecReport: the processing of generate_report (lines 191-213) applied   *)
(* to every bounded list of fetched issues and of fetched pull requests.   *)
(* The records are those the API serves: an open record has no closed_at,  *)
(* a closed one was closed at or after its creation, a merged pull request *)
(* was merged when it was closed, and every fetched pull request was       *)
(* updated inside the window (get_pull_requests keeps no other).           *)
(***************************************************************************)
Times == {T_before, T_start, T_after}

\* The times at or after a time.
NotBefore(c) == {t \in Times : fromisoformat(t) >= fromisoformat(c)}

IssueShapes ==
    {Issue(0, FALSE, c, "open", null) : c \in Times}
    \cup UNION {{Issue(0, FALSE, c, "closed", d) : d \in NotBefore(c)} : c \in Times}

PullRequestShapes ==
    {PullRequest(0, T_after, c, "open", null, null) : c \in Times}
    \cup UNION {UNION {{PullRequest(0, T_after, c, "closed", d, m) : m \in {null, d}} :
                         d \in NotBefore(c)} : c \in Times}

\* The lists of at most MaxRecords records, numbered by position.
Lists(shapes) ==
    UNION {{[i \in 1..n |-> [f[i] EXCEPT !.number = i]] : f \in [1..n -> shapes]} :
             n \in 0..MaxRecords}

InitReport ==
    /\ pc = "process"
    /\ args_export = null
    /\ \/ issues \in Lists(IssueShapes) /\ prs = <<>>
       \/ issues = <<>> /\ prs \in Lists(PullRequestShapes)
    /\ args_repo = "kb"
    /\ stage = "none"
    /\ page = 0
    /\ acc = <<>>
    /\ pages = <<>>
    /\ req = NoRequest
    /\ resp = NoResponse
    /\ repo_info = [full_name |-> Repository("kb")]
    /\ commits = <<>>
    /\ contributors = <<>>
    /\ scorecard = <<>>
    /\ url = "none"
    /\ repo_names = <<>>
    /\ choice_input = ""
    /\ e_status = 0
    /\ out = ""
    /\ output_file = null
    /\ fs = [p \in Paths |-> PreviousContent]
    /\ export_ret = "none"
    /\ NoScrape

\* Lines 191-213: the tally, the five lists, and the scorecard.
Process ==
    /\ pc = "process"
    /\ contributors' = analyze_contributors(commits)
    /\ scorecard' = << print_scorecard_report(commits, analyze_contributors(commits),
                                              issues, prs) >>
    /\ out' = "report_complete"
    /\ pc' = "processed"
    /\ UNCHANGED <<args_repo, args_export, stage, page, acc, pages, req, resp, repo_info,
                   commits, issues, prs, url, repo_names, choice_input, e_status,
                   output_file, fs, export_ret>>
    /\ UNCHANGED web

NextReport == Process

SpecReport == InitReport /\ [][NextReport]_vars

(***************************************************************************)
(* SpecWeb: GitHubPulseWebScraper.scrape_pulse.  The browser is driven     *)
(* through Selenium; each call of the driver returns what the page holds   *)
(* at that moment or raises one of Selenium's exceptions.                  *)
(***************************************************************************)
\* WebDriverException stands for it and for its subclasses other than the
\* two named (StaleElementReferenceException among them).
Exceptions == {"NoSuchElementException", "TimeoutException", "WebDriverException"}

\* The texts of the summary's div.d-flex elements.
MetricTexts == {"12 Commits by 3 authors", "3 authors", "2 Pull Requests",
                "4 issues", "Insights"}

\* The searched words that text.lower() contains.
Mentions(text) ==
    CASE text = "12 Commits by 3 authors" -> {"commit", "author"}
      [] text = "3 authors"               -> {"author"}
      [] text = "2 Pull Requests"         -> {"pull request"}
      [] text = "4 issues"                -> {"issue"}
      [] OTHER                            -> {}

MetricLists ==
    { <<>>,
      << "Insights", "3 authors" >>,
      << "12 Commits by 3 authors", "2 Pull Requests", "4 issues" >> }

NoSummary == [commits |-> null, authors |-> null, pull_requests |-> null, issues |-> null]

\* Lines 98-110: the if/elif chain over the metrics, in order.
RECURSIVE SummaryOf(_, _)
SummaryOf(metrics, n) ==
    IF n = 0 THEN NoSummary
    ELSE LET sum  == SummaryOf(metrics, n - 1)
             text == metrics[n] IN
         IF "commit" \in Mentions(text) THEN [sum EXCEPT !.commits = text]
         ELSE IF "author" \in Mentions(text) THEN [sum EXCEPT !.authors = text]
         ELSE IF "pull request" \in Mentions(text) THEN [sum EXCEPT !.pull_requests = text]
         ELSE IF "issue" \in Mentions(text) THEN [sum EXCEPT !.issues = text]
         ELSE sum

\* A commit element: the text of its message link (null when no selector
\* finds one), of its author element, and its time element's datetime.
CommitElem(message, author, datetime) ==
    [message |-> message, author |-> author, datetime |-> datetime]

CommitElemLists ==
    { <<>>,
      << CommitElem("fix", "u1", T_after) >>,
      << CommitElem(null, "u1", T_after), CommitElem("fix", null, null),
         CommitElem("", "u2", T_after) >> }

\* Lines 120-154: the commit_data of the elements that have a message.
RECURSIVE ParseCommits(_, _)
ParseCommits(elems, n) ==
    IF n = 0 THEN <<>>
    ELSE LET e == elems[n]
             commit_data ==
                 [message   |-> e.message,
                  author    |-> IF e.author # null THEN e.author ELSE "Unknown",
                  timestamp |-> e.datetime] IN
         IF e.message # null /\ e.message # ""
         THEN Append(ParseCommits(elems, n - 1), commit_data)
         ELSE ParseCommits(elems, n - 1)

\* commits_section[:20]
First20(elems) == SubSeq(elems, 1, IF Len(elems) < 20 THEN Len(elems) ELSE 20)

\* A link: its text and its href attribute (null when it has none).
IssueUrl == "https://github.com/Altinity/kb/issues/7"
PullUrl  == "https://github.com/Altinity/kb/pull/8"
Link(title, href) == [title |-> title, url |-> href]

\* "/issues/" in url, "/pull/" in url
InUrl(marker, href) ==
    \/ marker = "/issues/" /\ href = IssueUrl
    \/ marker = "/pull/" /\ href = PullUrl

\* The sections found for the issue and pull request activity, each with
\* its links.
SectionLists ==
    { <<>>,
      << << Link("Bug", IssueUrl), Link("Fix", PullUrl), Link("", IssueUrl) >> >>,
      << << Link("Bug", null), Link("Crash", IssueUrl) >>,
         << Link("Feature", PullUrl) >> >> }

\* Lines 165-171: the links of one section from the i-th on; a titled link
\* without href raises TypeError at the "in" test, which ends the section.
RECURSIVE LinksFrom(_, _, _)
LinksFrom(links, marker, i) ==
    IF i > Len(links) THEN <<>>
    ELSE IF links[i].title = "" THEN LinksFrom(links, marker, i + 1)
    ELSE IF links[i].url = null THEN <<>>
    ELSE IF InUrl(marker, links[i].url)
         THEN << links[i] >> \o LinksFrom(links, marker, i + 1)
         ELSE LinksFrom(links, marker, i + 1)

RECURSIVE ScrapeLinks(_, _, _)
ScrapeLinks(sections, marker, n) ==
    IF n = 0 THEN <<>>
    ELSE ScrapeLinks(sections, marker, n - 1) \o LinksFrom(sections[n], marker, 1)

\* The texts of the user links of the page.
UserLinkLists == { <<>>, << "u1", "u2", "u1" >>, << "Jane Doe", "", "u2" >> }

HasSpace(username) == username = "Jane Doe"

\* Lines 198-210: each new username without a space, once.
RECURSIVE ScrapeContributors(_, _)
ScrapeContributors(elems, n) ==
    IF n = 0 THEN <<>>
    ELSE LET seen == ScrapeContributors(elems, n - 1)
             username == elems[n] IN
         IF /\ username # ""
            /\ \A i \in 1..Len(seen) : seen[i].username # username
            /\ ~HasSpace(username)
         THEN Append(seen, [username |-> username])
         ELSE seen

\* Lines 72-82: the document before anything is scraped.
NewData ==
    [summary |-> NoSummary, commits |-> <<>>, issues |-> <<>>, pull_requests |-> <<>>,
     contributors |-> <<>>]

InitWeb ==
    /\ pc = "scrape"
    /\ args_export = null
    /\ commits = <<>>
    /\ contributors = <<>>
    /\ InitRest

\* Everything main() and its scraper own.
WebKeeps ==
    UNCHANGED <<args_repo, args_export, stage, page, acc, pages, req, resp, repo_info,
                commits, issues, prs, contributors, scorecard, url, repo_names,
                choice_input, e_status, output_file, fs, export_ret>>

\* The except clauses of scrape_pulse's outer try (lines 217-222).
ScrapeCatches(exception) ==
    /\ out' = IF exception = "TimeoutException" THEN "page_load_timeout" ELSE "scrape_error"
    /\ ret' = "None"
    /\ data' = <<>>
    /\ pc' = "returned"

\* self.driver.get(url)
WebGet ==
    /\ pc = "scrape"
    /\ \E r \in {"ok"} \cup Exceptions :
         IF r = "ok"
         THEN pc' = "wait" /\ out' = "fetching" /\ UNCHANGED <<data, ret>>
         ELSE ScrapeCatches(r)
    /\ UNCHANGED waited
    /\ WebKeeps

\* Lines 65-82: the wait for div.Box.mt-3 (WebDriverWait retries on
\* NoSuchElementException until its timeout), the sleep, the new document.
WebWait ==
    /\ pc = "wait"
    /\ \E r \in {"present", "TimeoutException", "WebDriverException"} :
         /\ waited' = Append(waited, r)
         /\ IF r = "WebDriverException"
            THEN ScrapeCatches(r)
            ELSE /\ out' = IF r = "TimeoutException" THEN "wait_timeout" ELSE out
                 /\ data' = << NewData >>
                 /\ pc' = "summary"
                 /\ UNCHANGED ret
    /\ WebKeeps

\* Lines 85-113: the summary section, looked up by three selectors, and its
\* metrics.  The except clause names NoSuchElementException only.
WebSummary ==
    /\ pc = "summary"
    /\ \E found \in BOOLEAN, r \in {"ok"} \cup Exceptions, metrics \in MetricLists :
         IF ~found
         THEN pc' = "commits" /\ UNCHANGED <<out, data, ret>>
         ELSE IF r = "ok"
         THEN /\ data' = << [data[1] EXCEPT !.summary = SummaryOf(metrics, Len(metrics))] >>
              /\ pc' = "commits"
              /\ UNCHANGED <<out, ret>>
         ELSE IF r = "NoSuchElementException"
         THEN pc' = "commits" /\ out' = "summary_not_found" /\ UNCHANGED <<data, ret>>
         ELSE ScrapeCatches(r)
    /\ UNCHANGED waited
    /\ WebKeeps

\* Lines 116-157
WebCommits ==
    /\ pc = "commits"
    /\ \E r \in {"ok"} \cup Exceptions, elems \in CommitElemLists :
         IF r = "ok"
         THEN /\ data' = << [data[1] EXCEPT
                               !.commits = ParseCommits(First20(elems), Len(First20(elems)))] >>
              /\ out' = "found_commits"
         ELSE out' = "commits_error" /\ UNCHANGED data
    /\ pc' = "issues"
    /\ UNCHANGED <<waited, ret>>
    /\ WebKeeps

\* Lines 160-175
WebIssues ==
    /\ pc = "issues"
    /\ \E r \in {"ok"} \cup Exceptions, sections \in SectionLists :
         IF r = "ok"
         THEN /\ data' = << [data[1] EXCEPT
                               !.issues = ScrapeLinks(sections, "/issues/", Len(sections))] >>
              /\ UNCHANGED out
         ELSE out' = "issues_error" /\ UNCHANGED data
    /\ pc' = "prs"
    /\ UNCHANGED <<waited, ret>>
    /\ WebKeeps

\* Lines 178-193
WebPullRequests ==
    /\ pc = "prs"
    /\ \E r \in {"ok"} \cup Exceptions, sections \in SectionLists :
         IF r = "ok"
         THEN /\ data' = << [data[1] EXCEPT
                               !.pull_requests = ScrapeLinks(sections, "/pull/", Len(sections))] >>
              /\ UNCHANGED out
         ELSE out' = "prs_error" /\ UNCHANGED data
    /\ pc' = "contributors"
    /\ UNCHANGED <<waited, ret>>
    /\ WebKeeps

\* Lines 196-215: the contributors, and return data.
WebContributors ==
    /\ pc = "contributors"
    /\ \E r \in {"ok"} \cup Exceptions, elems \in UserLinkLists :
         IF r = "ok"
         THEN /\ data' = << [data[1] EXCEPT
                               !.contributors = ScrapeContributors(elems, Len(elems))] >>
              /\ UNCHANGED out
         ELSE out' = "contributors_error" /\ UNCHANGED data
    /\ ret' = "data"
    /\ pc' = "returned"
    /\ UNCHANGED waited
    /\ WebKeeps

NextWeb == WebGet \/ WebWait \/ WebSummary \/ WebCommits \/ WebIssues
           \/ WebPullRequests \/ WebContributors

SpecWeb == InitWeb /\ [][NextWeb]_vars
(***************************************************************************)
(* Properties                                                              *)
(***************************************************************************)
FetchEndpoints == {"info", "commits", "issues", "prs"}

\* The fetcher of endpoint e is in its loop, about to request page k.
InLoopAt(e, k) == pc \in {"report", "export"} /\ stage = e /\ page = k

\* A running paginated fetcher is at page 1 with nothing received, or its
\* last request was for the page before the current one.
OnePageAtATime ==
    (pc \in {"report", "export"} /\ stage \in Paginated) =>
        \/ page = 1 /\ pages = <<>> /\ req.endpoint # stage
        \/ page > 1 /\ Len(pages) = page - 1 /\ req = [endpoint |-> stage, page |-> page - 1]

\* C1 as stated: for get_commits, get_issues and get_pull_requests alike,
\* pages are requested one at a time from page 1, and page k+1 is requested
\* if and only if page k returned at least one record and carried a "next"
\* link.
C1_NextPageIffRecordsAndNext ==
    /\ OnePageAtATime
    /\ req.endpoint \in Paginated =>
         (InLoopAt(req.endpoint, req.page + 1)
            <=> (resp.status = 200 /\ resp.body # <<>> /\ resp.next))

\* C1, amended: pages are requested one at a time from page 1; for
\* get_commits and get_issues page k+1 is requested if and only if page k
\* returned at least one record and carried a "next" link; for
\* get_pull_requests page k+1 is requested if and only if page k carried a
\* "next" link and held at least one record updated at or after since_date.
C1_Pagination ==
    /\ OnePageAtATime
    /\ req.endpoint \in Paginated =>
         (InLoopAt(req.endpoint, req.page + 1)
            <=> /\ resp.status = 200 /\ resp.body # <<>> /\ resp.next
                /\ req.endpoint = "prs" =>
                     \E i \in 1..Len(resp.body) :
                        fromisoformat(resp.body[i].updated_at) >= since_date)

\* C1's case: get_commits asked for page 2 and stopped there.
C1_Witness ==
    /\ pc = "report" /\ stage = "issues" /\ page = 1
    /\ req = [endpoint |-> "commits", page |-> 2]
    /\ Len(commits) > 2

NonIncreasing(tally) ==
    \A i \in 1..Len(tally) - 1 : tally[i].count >= tally[i + 1].count

\* C2 as stated: the counts of the tally sum to the number of commits with
\* a non-null author, and the entries are ordered non-increasing by count.
C2_SumOverNonNullAuthors ==
    pc = "analyzed" =>
        /\ SumCounts(contributors)
             = Cardinality({i \in 1..Len(commits) : ~commits[i].author.isnull})
        /\ NonIncreasing(contributors)

\* C2, amended: the counts of the tally sum to the number of commits whose
\* author is neither null nor an empty object, and the entries are ordered
\* non-increasing by count.
C2_Tally ==
    pc = "analyzed" =>
        /\ SumCounts(contributors)
             = Cardinality({i \in 1..Len(commits) :
                              ~commits[i].author.isnull /\ commits[i].author.keys # {}})
        /\ NonIncreasing(contributors)

\* C2's case: a list with an empty author object and two contributors with
\* different counts has been tallied.
C2_Witness ==
    /\ pc = "analyzed"
    /\ \E i \in 1..Len(commits) : commits[i].author = AuthorEmpty
    /\ Len(contributors) = 2
    /\ contributors[1].count > contributors[2].count

\* C3: the tally never has "Unknown" or a null author as a key, also when
\* commits have a null author or an author object without a login.
C3_NoUnknownKey ==
    pc = "analyzed" => "Unknown" \notin Keys(contributors) /\ null \notin Keys(contributors)

\* C4: when a request of get_repo_info, get_commits, get_issues or
\* get_pull_requests is answered with a non-success status, the call raises
\* to its caller and hands over no records: no fetcher goes on, nothing
\* fetched so far is kept, no scorecard is printed from it and no file is
\* written.
C4_FailedRequestRaises ==
    (req.endpoint \in FetchEndpoints /\ resp.status \in {403, 404, 500}) =>
        /\ pc \in {"listing", "done"}
        /\ stage \notin FetchEndpoints
        /\ acc = <<>> /\ commits = <<>> /\ issues = <<>> /\ prs = <<>>
        /\ repo_info = NoInfo /\ contributors = <<>>
        /\ export_ret \in {"none", "False"}
        /\ \A p \in Paths : fs[p] = PreviousContent
        /\ (export_ret = "none") => (e_status = resp.status)

\* C4's case: page 2 of get_commits failed after page 1 was accumulated.
C4_Witness ==
    /\ req = [endpoint |-> "commits", page |-> 2]
    /\ resp.status = 500
    /\ pc = "done"

\* main() has just caught an HTTPError of generate_report.
JustCaught ==
    e_status # 0 /\ resp.status = e_status /\ req.endpoint \in FetchEndpoints

\* C5: an HTTP failure of generate_report is classified by status: 404
\* enters the repository-name recovery, 403 prints the rate-limit message
\* and ends the run, any other status is logged and ends the run; a new
\* report attempt is only ever started from the recovery of a 404.
C5_Classification ==
    /\ [](/\ (JustCaught /\ e_status = 404) => (pc = "listing" /\ out = "not_found")
          /\ (JustCaught /\ e_status = 403) => (pc = "done" /\ out = "rate_limit")
          /\ (JustCaught /\ e_status \notin {403, 404}) => (pc = "done" /\ out = "http_error")
          /\ pc \in {"listing", "prompt"} => e_status = 404)
    /\ [][(pc' = "report" /\ stage' = "info" /\ ~(pc = "report" /\ stage = "info"))
            => (pc = "prompt" /\ e_status = 404 /\ out' = "retrying")]_vars

\* C5's case: a 403 on a later request of generate_report ended the run.
C5_Witness ==
    /\ JustCaught /\ e_status = 403 /\ req.endpoint = "issues" /\ pc = "done"

\* An input has been read at the prompt (the list is on screen and the
\* last message is no longer the list itself).
AfterChoice == repo_names # <<>> /\ ~(pc = "prompt" /\ out = "did_you_mean")

Quit    == pc = "done"
Retried == pc = "report" /\ stage = "info" /\ page = 1 /\ out = "retrying"
Again   == pc = "prompt" /\ out \in {"invalid_number", "invalid_input"}

IsIndex(inp, names) == int(inp).ok /\ int(inp).val \in 1..Len(names)

SortedByCodePoint(names) ==
    \A i \in 1..Len(names) - 1 : Rank(names[i]) <= Rank(names[i + 1])

\* C6 as stated: the input is accepted as exactly one of: an index i in
\* 1..N, which selects the i-th name of the sorted list; an exact name of
\* the list, which selects that name; 'q' (read in either letter case),
\* which aborts.  After an index or name choice the report is retried with
\* the chosen repository.
C6_ExactlyOneOf ==
    AfterChoice =>
        /\ SortedByCodePoint(repo_names)
        /\ IsIndex(choice_input, repo_names) =>
             (Retried /\ args_repo = repo_names[int(choice_input).val])
        /\ InList(choice_input, repo_names) => (Retried /\ args_repo = choice_input)
        /\ Lower(choice_input) = "q" => Quit
        /\ (Quit \/ Retried) =>
             \/ IsIndex(choice_input, repo_names)
             \/ InList(choice_input, repo_names)
             \/ Lower(choice_input) = "q"

\* C6, amended: the input is accepted as the first that applies of: 'q' in
\* either letter case, which aborts; an exact name of the sorted list,
\* which selects that name; an integer i in 1..N, which selects the i-th
\* name of the sorted list; any other input prompts again.  After a name or
\* index choice the report is retried (first request, page 1) with the
\* chosen repository; once main() has ended no further step is taken.
C6_Choice ==
    /\ [](AfterChoice =>
            /\ SortedByCodePoint(repo_names)
            /\ IF Lower(choice_input) = "q" THEN Quit
               ELSE IF InList(choice_input, repo_names)
               THEN Retried /\ args_repo = choice_input
               ELSE IF IsIndex(choice_input, repo_names)
               THEN Retried /\ args_repo = repo_names[int(choice_input).val]
               ELSE Again)
    /\ [][pc \notin {"done", "crashed"}]_vars

\* C6's case: "2" names a repository and is also the index of another one.
C6_Witness ==
    /\ Retried
    /\ repo_names = <<"2", "q">>
    /\ choice_input = "2"
    /\ args_repo = "2"

ListEndpoints == {"org", "user"}

\* C7: list_owner_repos tries the organisation endpoint first and the user
\* endpoint only after a 404 of the organisation endpoint (from page 1, with
\* an empty list); any other HTTP error on either endpoint, and a 404 on the
\* user endpoint, end it with an empty list; no HTTP error is raised to
\* main(), which ends without prompting when the list is empty.
C7_ListOwnerRepos ==
    /\ [](/\ (req.endpoint \in ListEndpoints /\ resp.status \in {403, 500}) =>
               (pc = "done" /\ repo_names = <<>> /\ out = "list_error" /\ url = "none")
          /\ (req.endpoint = "user" /\ resp.status = 404) =>
               (pc = "done" /\ repo_names = <<>> /\ out = "no_owner")
          /\ (req.endpoint = "org" /\ resp.status = 404) =>
               (pc = "listing" /\ url = "user" /\ page = 1 /\ acc = <<>>)
          /\ (req.endpoint \in ListEndpoints /\ resp.status \in Statuses) => pc # "crashed"
          /\ pc = "prompt" => repo_names # <<>>
          /\ (pc = "listing" /\ req.endpoint \notin ListEndpoints) => url = "org")
    /\ [][/\ (url' = "user" /\ url # "user") =>
               (url = "org" /\ req'.endpoint = "org" /\ resp'.status = 404)
          /\ (pc = "listing" /\ pc' # "listing" /\ resp'.status = 200) =>
               IF acc \o resp'.body = <<>>
               THEN pc' = "done" /\ repo_names' = <<>>
               ELSE pc' = "prompt" /\ Len(repo_names') = Len(acc \o resp'.body)]_vars

\* C7's case: the organisation endpoint answered 404 on its second page and
\* the user endpoint is about to be tried.
C7_Witness ==
    /\ pc = "listing" /\ url = "user" /\ page = 1
    /\ req = [endpoint |-> "org", page |-> 2]
    /\ resp.status = 404

\* export_json has been called (output_file is its argument).
Exporting == output_file # null

\* C8: export_json never raises: it returns True exactly when the document
\* was written, and False, after logging, when a fetch fails or the write
\* fails.
C8_ExportReturnsBoolean ==
    /\ export_ret # "raised"
    /\ (Exporting /\ pc \in {"done", "crashed"}) => export_ret \in {"True", "False"}
    /\ (Exporting /\ pc \notin {"done", "crashed"}) => (pc = "export" /\ export_ret = "none")
    /\ (Exporting /\ resp.status # 200) =>
         (pc = "done" /\ export_ret = "False" /\ out = "export_error")
    /\ export_ret = "True" =>
         /\ out = "exported"
         /\ load(fs[output_file]).ok
         /\ load(fs[output_file]).doc["repository"] = << Repository(args_repo) >>
    /\ export_ret = "False" =>
         /\ out \in {"export_error", "write_error"}
         /\ out = "write_error" =>
              (fs[output_file] = PreviousContent \/ ~load(fs[output_file]).ok)

\* C8's case: a request of export_json got no response at all.
C8_Witness ==
    /\ Exporting /\ pc = "done"
    /\ req.endpoint = "issues" /\ resp.status = 0
    /\ export_ret = "False"

\* C9: after any export attempt the file at the export path holds its
\* complete previous content or the complete new document.
C9_AtomicWrite ==
    \A p \in Paths : fs[p] = PreviousContent \/ load(fs[p]).ok

\* The records a fetcher keeps of a page.
KeptOf(endpoint, body) ==
    CASE endpoint = "commits" -> body
      [] endpoint = "issues"  -> SelectSeq(body, LAMBDA i : ~i.pull_request)
      [] endpoint = "prs"     ->
           SelectSeq(body, LAMBDA p : fromisoformat(p.updated_at) >= since_date)

RECURSIVE Concatenated(_, _, _)
Concatenated(endpoint, bodies, n) ==
    IF n = 0 THEN <<>>
    ELSE Concatenated(endpoint, bodies, n - 1) \o KeptOf(endpoint, bodies[n])

\* C10: after a successful export_json the document read back has commits,
\* issues and pull_requests equal, in order, to what the fetchers returned,
\* its contributors entry is the tally of those commits, and what a fetcher
\* returns is the concatenation, in page order, of what it kept of each page.
C10_RoundTrip ==
    /\ [](export_ret = "True" =>
            LET d == load(fs[output_file]) IN
            /\ d.ok
            /\ d.doc["commits"] = commits
            /\ d.doc["issues"] = issues
            /\ d.doc["pull_requests"] = prs
            /\ d.doc["contributors"] = analyze_contributors(commits)
            /\ d.doc["contributors"] = contributors)
    /\ [][(pc = "export" /\ stage \in Paginated /\ resp'.status = 200
             /\ ~(pc' = "export" /\ stage' = stage)) =>
            LET all == Concatenated(stage, Append(pages, resp'.body), Len(pages) + 1) IN
            CASE stage = "commits" -> commits' = all
              [] stage = "issues"  -> issues' = all
              [] stage = "prs"     -> prs' = all]_vars

\* C10's case: a document with two pages of commits, issues and a pull
\* request was exported.
C10_Witness ==
    /\ export_ret = "True"
    /\ Len(commits) = 4 /\ Len(issues) >= 2 /\ Len(prs) >= 1
    /\ Len(contributors) = 2

\* C11: get_issues returns no record that carries the pull-request marker,
\* and returns every record without the marker of every page it fetched,
\* in page order and in the order of the page.
C11_IssuesFilter ==
    /\ [](/\ \A i \in 1..Len(issues) : ~issues[i].pull_request
          /\ (pc \in {"report", "export"} /\ stage = "issues") =>
               /\ \A i \in 1..Len(acc) : ~acc[i].pull_request
               /\ acc = Concatenated("issues", pages, Len(pages)))
    /\ [][(pc \in {"report", "export"} /\ stage = "issues" /\ resp'.status = 200
             /\ ~(pc' = pc /\ stage' = "issues")) =>
            issues' = Concatenated("issues", Append(pages, resp'.body), Len(pages) + 1)]_vars

\* C11's case: generate_report's get_issues returned after two pages that
\* each held a marked record between two unmarked ones.
C11_Witness ==
    /\ pc = "report" /\ stage = "prs" /\ page = 1
    /\ req = [endpoint |-> "issues", page |-> 2]
    /\ resp.status = 200 /\ Len(resp.body) = 3 /\ resp.body[2].pull_request
    /\ Len(issues) = 4

\* The number of records of a list that satisfy a condition.
Count(records, Test(_)) == Cardinality({i \in 1..Len(records) : Test(records[i])})

InWindow(ts) == ts # null /\ fromisoformat(ts) >= since_date

\* C12 as stated: every pull request in state closed is counted once: as
\* merged when it has a merged_at timestamp, as closed-unmerged when it has
\* none; no open pull request is counted as either.
C12_EveryClosedCounted ==
    pc = "processed" =>
        /\ scorecard[1].prs_merged =
             Count(prs, LAMBDA p : p.state = "closed" /\ p.merged_at # null)
        /\ scorecard[1].prs_closed_unmerged =
             Count(prs, LAMBDA p : p.state = "closed" /\ p.merged_at = null)

\* C12, amended: every pull request in state closed whose closed_at is at
\* or after the start of the window is counted once: as merged when it has
\* a merged_at timestamp, as closed-unmerged when it has none; a pull
\* request that is open, or was closed before the window, is counted as
\* neither.
C12_MergedOrClosedUnmerged ==
    pc = "processed" =>
        /\ scorecard[1].prs_merged =
             Count(prs, LAMBDA p : p.state = "closed" /\ InWindow(p.closed_at)
                                     /\ p.merged_at # null)
        /\ scorecard[1].prs_closed_unmerged =
             Count(prs, LAMBDA p : p.state = "closed" /\ InWindow(p.closed_at)
                                     /\ p.merged_at = null)
        /\ scorecard[1].prs_merged + scorecard[1].prs_closed_unmerged =
             Count(prs, LAMBDA p : p.state = "closed" /\ InWindow(p.closed_at))
        /\ scorecard[1].prs_merged + scorecard[1].prs_closed_unmerged
             <= Len(prs) - Count(prs, LAMBDA p : p.state = "open")

\* C12's case: of two fetched pull requests one was merged in the window
\* and the other was merged before it.
C12_Witness ==
    /\ pc = "processed" /\ Len(prs) = 2
    /\ prs[1].state = "closed" /\ prs[1].merged_at = T_after
    /\ prs[2].state = "closed" /\ prs[2].merged_at = T_before
    /\ scorecard[1].prs_merged = 1 /\ scorecard[1].prs_closed_unmerged = 0

\* The list get_pull_requests returned is in prs (generate_report hands it
\* to the scorecard and starts export_json, which has no list yet).
PrsReturned == pc' \in {"ask_export", "done"}

\* C13: get_pull_requests keeps of each page the records updated at or
\* after since_date; a page with no such record adds nothing and ends the
\* fetch with no further request; a page with such records is followed by
\* the next page exactly when it carries a "next" link; every pull request
\* kept or returned has updated_at >= since_date.
C13_WindowStop ==
    /\ [](/\ \A i \in 1..Len(prs) : fromisoformat(prs[i].updated_at) >= since_date
          /\ (pc \in {"report", "export"} /\ stage = "prs") =>
               \A i \in 1..Len(acc) : fromisoformat(acc[i].updated_at) >= since_date
          /\ (req.endpoint = "prs" /\ resp.status = 200 /\ KeptOf("prs", resp.body) = <<>>) =>
               ~InLoopAt("prs", req.page + 1))
    /\ [][(pc \in {"report", "export"} /\ stage = "prs" /\ resp'.status = 200) =>
            LET kept == KeptOf("prs", resp'.body) IN
            IF kept # <<>> /\ resp'.next
            THEN pc' = pc /\ stage' = "prs" /\ page' = page + 1 /\ acc' = acc \o kept
            ELSE /\ ~(pc' = pc /\ stage' = "prs")
                 /\ PrsReturned => prs' = acc \o kept]_vars

\* C13's case: the first page of pull requests held only a record updated
\* before the window and carried a "next" link; get_pull_requests returned
\* an empty list without asking for the second page.
C13_Witness ==
    /\ pc = "ask_export"
    /\ req = [endpoint |-> "prs", page |-> 1]
    /\ resp.status = 200 /\ resp.body # <<>> /\ KeptOf("prs", resp.body) = <<>>
    /\ resp.next
    /\ prs = <<>>

\* The commits of a list that are tallied under a key, by position.
TalliedAs(cs, key) ==
    {i \in 1..Len(cs) :
       /\ ~cs[i].author.isnull /\ cs[i].author.keys # {}
       /\ key = (IF "login" \in cs[i].author.keys THEN cs[i].author.login ELSE "Unknown")}

\* The position of the first commit tallied under a key (0 when there is none).
FirstEncounter(cs, key) ==
    IF TalliedAs(cs, key) = {} THEN 0
    ELSE CHOOSE i \in TalliedAs(cs, key) : \A j \in TalliedAs(cs, key) : i <= j

\* C14: every key of the tally was encountered in the commit list and is
\* listed once, and of two entries with equal counts the one listed first
\* was encountered first in the commit list.
C14_StableOnTies ==
    pc = "analyzed" =>
        \A i, j \in 1..Len(contributors) :
            /\ FirstEncounter(commits, contributors[i].login) > 0
            /\ contributors[i].count = Cardinality(TalliedAs(commits, contributors[i].login))
            /\ (i < j) => contributors[i].login # contributors[j].login
            /\ (i < j /\ contributors[i].count = contributors[j].count) =>
                 FirstEncounter(commits, contributors[i].login)
                   < FirstEncounter(commits, contributors[j].login)

\* C14's case: two authors with one commit each are listed behind an
\* author with two commits who was encountered after the first of them.
C14_Witness ==
    /\ pc = "analyzed"
    /\ Len(contributors) = 3
    /\ contributors[1].count = 2
    /\ contributors[2].count = 1 /\ contributors[3].count = 1
    /\ FirstEncounter(commits, contributors[2].login) = 1
    /\ FirstEncounter(commits, contributors[3].login)
         > FirstEncounter(commits, contributors[1].login)

OpenedInWindow(r) == fromisoformat(r.created_at) >= since_date
ClosedInWindow(r) == r.state = "closed" /\ InWindow(r.closed_at)

\* C15: the opened counts are the numbers of fetched issues, and of
\* fetched pull requests, created at or after since_date; the closed counts
\* are the numbers of those in state closed with closed_at at or after
\* since_date; a record that is both is counted in both, so the scorecard's
\* issue total counts it twice.
C15_OpenedAndClosed ==
    pc = "processed" =>
        /\ scorecard[1].issues_opened = Count(issues, OpenedInWindow)
        /\ scorecard[1].issues_closed = Count(issues, ClosedInWindow)
        /\ scorecard[1].prs_opened = Count(prs, OpenedInWindow)
        /\ scorecard[1].prs_merged + scorecard[1].prs_closed_unmerged
             = Count(prs, ClosedInWindow)
        /\ scorecard[1].total_issues =
             Count(issues, LAMBDA r : OpenedInWindow(r) \/ ClosedInWindow(r))
               + Count(issues, LAMBDA r : OpenedInWindow(r) /\ ClosedInWindow(r))

\* C15's case: the one fetched issue was created and closed in the window,
\* and the scorecard's total is two issues.
C15_Witness ==
    /\ pc = "processed" /\ Len(issues) = 1
    /\ OpenedInWindow(issues[1]) /\ ClosedInWindow(issues[1])
    /\ scorecard[1].issues_opened = 1 /\ scorecard[1].issues_closed = 1
    /\ scorecard[1].total_issues = 2

\* C16: when main() has printed a scorecard and then written the JSON
\* export, the exported commits, issues, pull requests and tally are the
\* data the scorecard was rendered from: rendering the exported document
\* gives the scorecard that was printed.
C16_SameAggregatedInput ==
    export_ret = "True" =>
        LET d == load(fs[output_file]).doc IN
        /\ scorecard # <<>>
        /\ scorecard[1] = print_scorecard_report(d["commits"], d["contributors"],
                                                 d["issues"], d["pull_requests"])

\* The wait for the summary element timed out.
WaitTimedOut == waited # <<>> /\ waited[1] = "TimeoutException"

\* C17: when the wait for the summary element has timed out, scrape_pulse
\* goes on and returns a document, not None; it waits at most once.
C17_TimeoutContinues ==
    /\ Len(waited) <= 1
    /\ (WaitTimedOut /\ pc # "returned") => (data # <<>> /\ ret = "none")
    /\ (WaitTimedOut /\ pc = "returned") => (ret = "data" /\ data # <<>>)

\* The place of a resource in the order of the report.
Order(e) ==
    CASE e = "info" -> 1 [] e = "commits" -> 2 [] e = "issues" -> 3 [] e = "prs" -> 4
      [] OTHER -> 0

\* C18: every step of generate_report is one request, for the current page
\* of the current resource; the resources follow each other in the order
\* repository info, commits, issues, pull requests, each from page 1 and
\* only after the one before has returned; the scorecard is printed by the
\* step that ends the successful fetch of the pull requests and by no
\* other; a failed request ends the report with no scorecard.
C18_SequentialFetch ==
    /\ [](/\ pc = "report" => (stage \in FetchEndpoints /\ scorecard = <<>>)
          /\ (pc = "report" /\ stage = "info") => page = 1
          /\ scorecard # <<>> => pc \in {"export", "ask_export", "done"})
    /\ [][/\ (pc # "report" /\ pc' = "report") => (stage' = "info" /\ page' = 1)
          /\ scorecard' # scorecard =>
               (pc = "report" /\ stage = "prs" /\ resp'.status = 200)
          /\ pc = "report" =>
               /\ req' = [endpoint |-> stage, page |-> page]
               /\ IF resp'.status = 200
                  THEN \/ /\ pc' = "report" /\ stage \in Paginated
                          /\ stage' = stage /\ page' = page + 1
                       \/ /\ pc' = "report" /\ stage # "prs"
                          /\ Order(stage') = Order(stage) + 1 /\ page' = 1
                       \/ /\ stage = "prs" /\ pc' \in {"export", "ask_export"}
                          /\ scorecard' # <<>> /\ out' = "report_complete"
                  ELSE /\ pc' \in {"done", "listing"}
                       /\ stage' \notin FetchEndpoints
                       /\ scorecard' = <<>>]_vars

\* C18's case: the scorecard was printed after two pages of commits, of
\* issues and of pull requests.
C18_Witness ==
    /\ pc = "ask_export"
    /\ req = [endpoint |-> "prs", page |-> 2]
    /\ scorecard # <<>>
    /\ scorecard[1].total_commits = 4 /\ scorecard[1].issues_opened = 2
    /\ Len(prs) = 2

\* A page of the issues endpoint that holds records, all of them marked as
\* pull requests.
OnlyPullRequests(body) ==
    body # <<>> /\ \A i \in 1..Len(body) : body[i].pull_request

\* C19: a non-empty page of get_issues whose records are all pull requests
\* adds nothing to the list and does not end the fetch: with a "next" link
\* the fetcher goes on to the next page, without one it returns the list it
\* had.
C19_RawPageTest ==
    [][(pc \in {"report", "export"} /\ stage = "issues" /\ resp'.status = 200
          /\ OnlyPullRequests(resp'.body)) =>
         IF resp'.next
         THEN /\ pc' = pc /\ stage' = "issues" /\ page' = page + 1
              /\ acc' = acc /\ issues' = issues
         ELSE /\ pc' = pc /\ stage' = "prs" /\ page' = 1
              /\ issues' = acc]_vars

\* C19's case: the first page of issues held one pull request and a "next"
\* link; get_issues has nothing yet and is about to ask for page 2.
C19_Witness ==
    /\ pc = "report" /\ stage = "issues" /\ page = 2
    /\ req = [endpoint |-> "issues", page |-> 1]
    /\ resp.status = 200 /\ OnlyPullRequests(resp.body) /\ resp.next
    /\ acc = <<>>

\* An input that is not 'q' (in either letter case), not a listed name and
\* not an integer in 1..N.
Invalid(inp, names) ==
    Lower(inp) # "q" /\ ~InList(inp, names) /\ ~IsIndex(inp, names)

\* C20: at the prompt an invalid input changes neither the selected
\* repository nor the list, sends no request, logs a warning and leaves
\* main() at the prompt; every other input leaves the prompt.
C20_InvalidInput ==
    [][pc = "prompt" =>
         IF Invalid(choice_input', repo_names)
         THEN /\ pc' = "prompt"
              /\ args_repo' = args_repo /\ repo_names' = repo_names
              /\ req' = req /\ resp' = resp
              /\ stage' = stage /\ page' = page
              /\ out' \in {"invalid_number", "invalid_input"}
         ELSE pc' \in {"done", "report"}]_vars

\* C20's case: "3" was typed at a list of two names; the repository is the
\* one that was not found and the prompt is up again.
C20_Witness ==
    /\ pc = "prompt" /\ Len(repo_names) = 2
    /\ choice_input = "3" /\ out = "invalid_number"
    /\ args_repo = "kb"
    /\ resp.status = 200 /\ req.endpoint = "org"

\* The input in lower case is 'q'.
IsQuit(inp) == inp \in {"q", "Q"}

\* C21: at the prompt 'q' in either letter case ends main() with the
\* repository unchanged and no request, also when a listed repository is
\* named "q"; any other input that is a listed name selects the repository
\* of that name and retries the report, also when the input is a valid
\* index of another repository.
C21_NameBeforeIndex ==
    [][pc = "prompt" =>
         /\ IsQuit(choice_input') =>
              /\ pc' = "done"
              /\ args_repo' = args_repo
              /\ req' = req /\ resp' = resp
         /\ (~IsQuit(choice_input') /\ InList(choice_input', repo_names)) =>
              /\ pc' = "report" /\ stage' = "info" /\ page' = 1
              /\ args_repo' = choice_input'
              /\ out' = "retrying"]_vars

\* C21's case: the input was both a listed name and the index of a
\* repository of another name; the report is retried with the repository
\* of that name.
C21_Witness ==
    /\ Retried
    /\ InList(choice_input, repo_names) /\ IsIndex(choice_input, repo_names)
    /\ repo_names[int(choice_input).val] # choice_input
    /\ args_repo = choice_input
    /\ \E i \in 1..Len(repo_names) : IsQuit(repo_names[i])

\* C22: once the scorecard is printed main() makes no further report
\* attempt and never enters the repository-name recovery; export_json is
\* entered at most once; a request that fails inside it ends main() with
\* export_json returning False, whatever the status.
C22_ExportFailureEndsRun ==
    /\ [](scorecard # <<>> =>
            /\ pc \in {"export", "ask_export", "done"}
            /\ repo_names = <<>>
            /\ (Exporting /\ resp.status # 200) =>
                 (pc = "done" /\ export_ret = "False" /\ out = "export_error"))
    /\ [][scorecard # <<>> =>
            /\ pc' \in {"export", "done"}
            /\ scorecard' = scorecard
            /\ args_repo' = args_repo
            /\ e_status' = e_status
            /\ (pc' = "export" /\ pc # "export") => (pc = "ask_export" /\ ~Exporting)
            /\ (pc = "export" /\ resp'.status # 200) =>
                 (pc' = "done" /\ export_ret' = "False")]_vars

\* C22's case: after the scorecard a request of export_json was answered
\* 404, and main() has ended.
C22_Witness ==
    /\ scorecard # <<>> /\ Exporting
    /\ req.endpoint = "commits" /\ resp.status = 404
    /\ pc = "done" /\ export_ret = "False"
    /\ e_status = 0

\* The records a listing endpoint serves on its pages 1..n, in order.
RECURSIVE OwnPages(_, _)
OwnPages(endpoint, n) ==
    IF n = 0 THEN <<>> ELSE OwnPages(endpoint, n - 1) \o Body(endpoint, n, "full")

\* C23: while list_owner_repos pages an endpoint its list holds the records
\* of that endpoint's earlier pages and nothing else; a 404 of the
\* organisation endpoint, on any page, is followed by the user endpoint at
\* page 1 with an empty list; the list shown at the prompt holds the names
\* of the pages of one endpoint.
C23_SingleEndpoint ==
    /\ [](/\ pc = "listing" =>
               /\ url \in ListEndpoints
               /\ acc = OwnPages(url, page - 1)
               /\ repo_names = <<>>
          /\ pc = "prompt" =>
               \E u \in ListEndpoints, n \in 1..MaxPages :
                  repo_names = SortedNames(OwnPages(u, n)))
    /\ [][pc = "listing" =>
            /\ req' = [endpoint |-> url, page |-> page]
            /\ (url = "org" /\ resp'.status = 404) =>
                 (pc' = "listing" /\ url' = "user" /\ page' = 1 /\ acc' = <<>>)
            /\ pc' = "prompt" =>
                 /\ resp'.status = 200
                 /\ repo_names' = SortedNames(OwnPages(url, page - 1) \o resp'.body)]_vars

\* C23's case: the organisation endpoint served a page of repositories and
\* answered 404 on the next; the list is empty again and the user endpoint
\* is at page 1.
C23_Witness ==
    /\ pc = "listing" /\ url = "user" /\ page = 1
    /\ req.endpoint = "org" /\ req.page > 1 /\ resp.status = 404
    /\ OwnPages("org", req.page - 1) # <<>>
    /\ acc = <<>> /\ pages = <<>>

====
